---- MODULE Spec2Model ----
(***************************************************************************)
(* Model of the two scripts of create_course_quizzes_for_canvas:           *)
(*   create_canvas_quiz.py       Text2QtiParser, CanvasQuizCreator,        *)
(*                               create_quiz_from_text2qti_file, main      *)
(*   get_canvas_module_items.py  download_course_modules, download_file,   *)
(*                               download_page, main                       *)
(* A line of text is a sequence of one-character strings.  Indices are     *)
(* 1-based: the model's i is Python's i + 1.                               *)
(***************************************************************************)
EXTENDS Integers, Sequences, FiniteSets, TLC

\* ------------------------------------------------------------------ bounds
MaxLines == 3
MaxLineLen == 5
MaxModules == 2
MaxItemsTotal == 3
MaxParseLines == 4

\* -------------------------------------------------------------- characters
WS == {" ", "\t"}
Digits == {"0", "1", "2", "3", "4", "5", "6", "7", "8", "9"}
LowerSeq == <<"a", "b", "c", "d", "e", "f", "g", "h", "i", "j", "k", "l", "m",
              "n", "o", "p", "q", "r", "s", "t", "u", "v", "w", "x", "y", "z">>
UpperSeq == <<"A", "B", "C", "D", "E", "F", "G", "H", "I", "J", "K", "L", "M",
              "N", "O", "P", "Q", "R", "S", "T", "U", "V", "W", "X", "Y", "Z">>
LowerLetters == {LowerSeq[k] : k \in 1..Len(LowerSeq)}

IsSpace(c) == c \in WS
IsDigit(c) == c \in Digits
IsLower(c) == c \in LowerLetters

\* str.lower() on one character, then on a string
LowerChar(c) ==
    IF \E k \in 1..Len(UpperSeq) : UpperSeq[k] = c
    THEN LowerSeq[CHOOSE k \in 1..Len(UpperSeq) : UpperSeq[k] = c]
    ELSE c
Lower(s) == [k \in 1..Len(s) |-> LowerChar(s[k])]

\* number of leading characters of s, from position p on, that satisfy the class
RECURSIVE WsRun(_, _)
WsRun(s, p) == IF p <= Len(s) /\ IsSpace(s[p]) THEN 1 + WsRun(s, p + 1) ELSE 0
RECURSIVE DigitRun(_, _)
DigitRun(s, p) == IF p <= Len(s) /\ IsDigit(s[p]) THEN 1 + DigitRun(s, p + 1) ELSE 0
RECURSIVE TrailingWs(_, _)
TrailingWs(s, p) == IF p >= 1 /\ IsSpace(s[p]) THEN 1 + TrailingWs(s, p - 1) ELSE 0

\* str.strip()
Strip(s) ==
    LET a == WsRun(s, 1)
        b == TrailingWs(s, Len(s))
    IN  IF a = Len(s) THEN <<>> ELSE SubSeq(s, a + 1, Len(s) - b)

StartsWith(s, prefix) ==
    Len(s) >= Len(prefix) /\ SubSeq(s, 1, Len(prefix)) = prefix

\* ------------------------------------------------------------------ regexes
\* The tail "\s+(.+)" of a pattern, matched from position p of s: one or more
\* whitespace characters (greedy, giving back one when nothing would be left)
\* and then at least one character.
TailMatches(s, p) == p + 1 <= Len(s) /\ IsSpace(s[p])
TailGroup(s, p) ==
    LET w == WsRun(s, p)
        k == IF p + w <= Len(s) THEN w ELSE w - 1
    IN  SubSeq(s, p + k, Len(s))

\* re.match(r'^\d+\.\s+', line)
QuestionStartMatch(s) ==
    LET d == DigitRun(s, 1)
    IN  d >= 1 /\ Len(s) >= d + 2 /\ s[d + 1] = "." /\ IsSpace(s[d + 2])

\* QuestionMatch with \d in place of \d+
QuestionMatchOneDigit(s) ==
    DigitRun(s, 1) = 1 /\ Len(s) >= 2 /\ s[2] = "." /\ TailMatches(s, 3)

\* re.match(r'^\d+\.\s+(.+)', line) and its group(1)
QuestionMatch(s) ==
    LET d == DigitRun(s, 1)
    IN  d >= 1 /\ Len(s) >= d + 1 /\ s[d + 1] = "." /\ TailMatches(s, d + 2)
QuestionText(s) == TailGroup(s, DigitRun(s, 1) + 2)

\* re.match(r'^(\*?)([a-z])\)\s+(.+)', line), group(1) == '*' and group(3)
StarOffset(s) == IF Len(s) >= 1 /\ s[1] = "*" THEN 1 ELSE 0
ChoiceMatch(s) ==
    LET o == StarOffset(s)
    IN  Len(s) >= o + 2 /\ IsLower(s[o + 1]) /\ s[o + 2] = ")" /\ TailMatches(s, o + 3)
ChoiceCorrect(s) == StarOffset(s) = 1
ChoiceText(s) == TailGroup(s, StarOffset(s) + 3)

\* re.match(r'^\[(.?)\]\s+(.+)', line): (.?) first tries one character, then none
MultiOne(s) == Len(s) >= 3 /\ s[1] = "[" /\ s[3] = "]" /\ TailMatches(s, 4)
MultiNone(s) == Len(s) >= 2 /\ s[1] = "[" /\ s[2] = "]" /\ TailMatches(s, 3)
MultiChoiceMatch(s) == MultiOne(s) \/ MultiNone(s)
MultiChoiceCorrect(s) == MultiOne(s) /\ s[2] = "*"
MultiChoiceText(s) == IF MultiOne(s) THEN TailGroup(s, 4) ELSE TailGroup(s, 3)

\* re.match(r'^=\s+(.+)', line) and group(1).strip()
NumericalMatch(s) == Len(s) >= 1 /\ s[1] = "=" /\ TailMatches(s, 2)
NumericalAnswer(s) == Strip(TailGroup(s, 2))

\* ShortAnswerMatch with \s* in place of \s+
ShortAnswerMatchLoose(s) == Len(s) >= 2 /\ s[1] = "*"

\* re.match(r'^\*\s+(.+)', line) and group(1)
ShortAnswerMatch(s) == Len(s) >= 1 /\ s[1] = "*" /\ TailMatches(s, 2)
ShortAnswerText(s) == TailGroup(s, 2)

\* re.match(r'^_{3,}', line)
EssayMatch(s) == Len(s) >= 3 /\ s[1] = "_" /\ s[2] = "_" /\ s[3] = "_"

\* re.match(r'^\^{3,}', line)
FileUploadMatch(s) == Len(s) >= 3 /\ s[1] = "^" /\ s[2] = "^" /\ s[3] = "^"

\* The checks of _parse_question's loop, in the order the code tries them; the
\* kind of a line is the first check that matches.
CodeOrder == <<"question", "choice", "multi", "numerical", "short", "essay", "file_upload">>
Matches(k, s) ==
    CASE k = "question"    -> QuestionStartMatch(s)
      [] k = "choice"      -> ChoiceMatch(s)
      [] k = "multi"       -> MultiChoiceMatch(s)
      [] k = "numerical"   -> NumericalMatch(s)
      [] k = "short"       -> ShortAnswerMatch(s)
      [] k = "essay"       -> EssayMatch(s)
      [] k = "file_upload" -> FileUploadMatch(s)
RECURSIVE FirstMatch(_, _)
FirstMatch(order, s) ==
    IF order = <<>> THEN "none"
    ELSE IF Matches(Head(order), s) THEN Head(order)
    ELSE FirstMatch(Tail(order), s)
LineKind(s) == FirstMatch(CodeOrder, s)

\* ------------------------------------------------------------------- inputs
\* Lines a quiz file is made of.
FilePool == {
    <<"1", ".", " ", "Q">>,
    <<" ", "1", "2", ".", "\t", "Z", " ">>,
    <<"1", ".", " ">>,
    <<"a", ")", " ", "t", "r", "u", "e">>,
    <<"*", "b", ")", " ", "F", "a", "l", "s", "e">>,
    <<"[", "*", "]", " ", "x">>,
    <<"=", " ", "5">>,
    <<"*", " ", "x">>,
    <<"_", "_", "_">>,
    <<"^", "^", "^", "^">>,
    <<>>,
    <<"%", " ", "c">>,
    <<"Q", "u", "i", "z", " ", "t", "i", "t", "l", "e", ":", " ", "T">> }

SeqsUpTo(S, n) == UNION {[1..k -> S] : k \in 0..n}
FileContents == SeqsUpTo(FilePool, MaxLines)

\* -------------------------------------------------------------------- state
VARIABLES
    script,             \* which script runs: "quiz" or "modules"
    pc,                 \* position in the running script
    env,                \* the environment variables read by main
    exc,                \* the exception that ended the run, "none" if none
    out,                \* what was printed to standard output
    lines,              \* parse_content: content.split('\n')
    i,                  \* parse_content / _parse_question: the line index
    cur,                \* _parse_question: the question being built
    questions,          \* Text2QtiParser.questions
    quiz_title,         \* Text2QtiParser.quiz_title
    quiz_description,   \* Text2QtiParser.quiz_description
    multiple_attempts,  \* Text2QtiParser.multiple_attempts
    qstart,             \* the start_idx of every _parse_question call that returned a question
    none_returned,      \* whether _parse_question ever returned None
    examined,           \* the loop iterations so far: the line each one read, and the
                        \* _parse_question call it belongs to (0: the loop of parse_content)
    total_points,       \* create_quiz_from_text2qti_file: total_points
    assignment_id,      \* create_quiz_from_text2qti_file: quiz['id'], 0 before creation
    qi,                 \* create_quiz_from_text2qti_file: the enumerate index
    created_questions,  \* create_quiz_from_text2qti_file: created_questions
    requests,           \* the HTTP POSTs made so far, failed ones included
    result,             \* what create_quiz_from_text2qti_file returned
    mod_left,           \* download_course_modules: modules still to come from the API
    fetched,            \* module items returned by the API so far
    all_items,          \* download_course_modules: all_items
    todo,               \* download_course_modules: items_to_download not yet processed
    attempts,           \* the download_file / download_page calls made, with their outcome
    line,               \* a single stripped line under classification
    kinds               \* the set of patterns that line matches

parseVars == <<lines, i, cur, questions, quiz_title, quiz_description,
               multiple_attempts, qstart, none_returned, examined>>
quizVars == <<total_points, assignment_id, qi, created_questions, requests, result>>
modVars == <<mod_left, fetched, all_items, todo, attempts>>
lineVars == <<line, kinds>>
vars == <<script, pc, env, exc, out, parseVars, quizVars, modVars, lineVars>>

\* --------------------------------------------------------- Text2QtiParser
NoQuestion ==
    [text |-> <<>>, type |-> "none", choices |-> <<>>, points |-> 0,
     answer |-> <<>>, answers |-> <<>>, keys |-> {}]

\* the dict built at lines 136-141; keys is the set of keys the dict has
NewQuestion(text) ==
    [text |-> text, type |-> "multiple_choice", choices |-> <<>>, points |-> 1,
     answer |-> <<>>, answers |-> <<>>, keys |-> {"text", "type", "choices", "points"}]

\* line.split(':', 1)[1].strip()
RECURSIVE FirstColon(_, _)
FirstColon(s, p) == IF s[p] = ":" THEN p ELSE FirstColon(s, p + 1)
AfterColon(s) == Strip(SubSeq(s, FirstColon(s, 1) + 1, Len(s)))

TitlePrefix == <<"q", "u", "i", "z", " ", "t", "i", "t", "l", "e", ":">>
DescriptionPrefix == <<"q", "u", "i", "z", " ", "d", "e", "s", "c", "r", "i", "p", "t", "i", "o", "n", ":">>
AttemptsPrefix == <<"m", "u", "l", "t", "i", "p", "l", "e", " ", "a", "t", "t", "e", "m", "p", "t", "s", ":">>

CurLine == Strip(lines[i])

\* lines 85 and 147: an iteration of the loop of call n reads lines[i]
Reads(n) == examined' = Append(examined, [idx |-> i, by |-> n])

\* lines 88: not line or line.startswith('%')
SkipLine(s) == IF s = <<>> THEN TRUE ELSE s[1] = "%"

\* lines 146-151: the loop of _parse_question is left
LoopEnds == IF i > Len(lines) THEN TRUE ELSE LineKind(CurLine) = "question"

\* parse_content, lines 85-90: an empty line or a comment is skipped
OuterSkip ==
    /\ pc = "parse" /\ i <= Len(lines)
    /\ Reads(0)
    /\ SkipLine(CurLine)
    /\ i' = i + 1
    /\ UNCHANGED <<script, pc, env, exc, out, lines, cur, questions, quiz_title,
                   quiz_description, multiple_attempts, qstart, none_returned,
                   quizVars, modVars, lineVars>>

\* the three settings checks of lines 93-100, each tried on every other line
SettingsAfter(s) ==
    [title |-> IF StartsWith(Lower(s), TitlePrefix) THEN AfterColon(s) ELSE quiz_title,
     description |-> IF StartsWith(Lower(s), DescriptionPrefix) THEN AfterColon(s)
                     ELSE quiz_description,
     attempts |-> IF StartsWith(Lower(s), AttemptsPrefix) THEN AfterColon(s)
                  ELSE multiple_attempts]

\* parse_content, lines 93-110, for a line that does not start a question
OuterLine ==
    /\ pc = "parse" /\ i <= Len(lines)
    /\ Reads(0)
    /\ ~SkipLine(CurLine)
    /\ ~QuestionStartMatch(CurLine)
    /\ quiz_title' = SettingsAfter(CurLine).title
    /\ quiz_description' = SettingsAfter(CurLine).description
    /\ multiple_attempts' = SettingsAfter(CurLine).attempts
    /\ i' = i + 1
    /\ UNCHANGED <<script, pc, env, exc, out, lines, cur, questions, qstart,
                   none_returned, quizVars, modVars, lineVars>>

\* parse_content, lines 93-104, and _parse_question, lines 130-143: a line that
\* starts a question; _parse_question returns (None, start_idx + 1) when its own
\* pattern does not match, and otherwise enters its loop at start_idx + 1
OuterQuestion ==
    /\ pc = "parse" /\ i <= Len(lines)
    /\ Reads(0)
    /\ ~SkipLine(CurLine)
    /\ QuestionStartMatch(CurLine)
    /\ quiz_title' = SettingsAfter(CurLine).title
    /\ quiz_description' = SettingsAfter(CurLine).description
    /\ multiple_attempts' = SettingsAfter(CurLine).attempts
    /\ i' = i + 1
    /\ IF QuestionMatch(CurLine)
       THEN /\ cur' = NewQuestion(QuestionText(CurLine))
            /\ qstart' = Append(qstart, i)
            /\ out' = Append(out, [tag |-> "question_text", n |-> i])
            /\ pc' = "question"
            /\ UNCHANGED none_returned
       ELSE /\ none_returned' = TRUE
            /\ UNCHANGED <<cur, qstart, out, pc>>
    /\ UNCHANGED <<script, env, exc, lines, questions, quizVars, modVars, lineVars>>

InQuestion(k) ==
    /\ pc = "question" /\ i <= Len(lines) /\ LineKind(CurLine) = k
    /\ Reads(Len(qstart))

QUnchanged == <<script, pc, env, exc, out, lines, questions, quiz_title,
                quiz_description, multiple_attempts, qstart, none_returned,
                quizVars, modVars, lineVars>>

\* _parse_question, lines 154-164
QChoice ==
    /\ InQuestion("choice")
    /\ cur' = [cur EXCEPT
                 !.choices = Append(@, [text |-> ChoiceText(CurLine),
                                        correct |-> ChoiceCorrect(CurLine)]),
                 !.type = "multiple_choice"]
    /\ i' = i + 1
    /\ UNCHANGED QUnchanged

\* _parse_question, lines 167-178
QMulti ==
    /\ InQuestion("multi")
    /\ cur' = [cur EXCEPT
                 !.choices = Append(@, [text |-> MultiChoiceText(CurLine),
                                        correct |-> MultiChoiceCorrect(CurLine)]),
                 !.type = "multiple_answer"]
    /\ i' = i + 1
    /\ UNCHANGED QUnchanged

\* _parse_question, lines 181-187
QNumerical ==
    /\ InQuestion("numerical")
    /\ cur' = [cur EXCEPT !.type = "numerical",
                          !.answer = NumericalAnswer(CurLine),
                          !.keys = @ \cup {"answer"}]
    /\ i' = i + 1
    /\ UNCHANGED QUnchanged

\* _parse_question, lines 190-197
QShortAnswer ==
    /\ InQuestion("short")
    /\ cur' = [cur EXCEPT !.type = "short_answer",
                          !.answers = Append(@, ShortAnswerText(CurLine)),
                          !.keys = @ \cup {"answers"}]
    /\ i' = i + 1
    /\ UNCHANGED QUnchanged

\* _parse_question, lines 200-203
QEssay ==
    /\ InQuestion("essay")
    /\ cur' = [cur EXCEPT !.type = "essay"]
    /\ i' = i + 1
    /\ UNCHANGED QUnchanged

\* QFileUpload setting the type of the branch above it
QFileUploadAsEssay ==
    /\ InQuestion("file_upload")
    /\ cur' = [cur EXCEPT !.type = "essay"]
    /\ i' = i + 1
    /\ UNCHANGED QUnchanged

\* _parse_question, lines 206-209
QFileUpload ==
    /\ InQuestion("file_upload")
    /\ cur' = [cur EXCEPT !.type = "file_upload"]
    /\ i' = i + 1
    /\ UNCHANGED QUnchanged

\* _parse_question, lines 212-217: an empty or unrecognised line
QOther ==
    /\ InQuestion("none")
    /\ i' = i + 1
    /\ UNCHANGED <<cur, QUnchanged>>

\* lines 220-224: a two-choice multiple_choice question is true_false when its
\* lower-cased choice texts contain 'true' and 'false', or 'yes' and 'no'
TextTrue == <<"t", "r", "u", "e">>
TextFalse == <<"f", "a", "l", "s", "e">>
TextYes == <<"y", "e", "s">>
TextNo == <<"n", "o">>
\* AutoDetect without the test of the type
AutoDetectAnyType(q) ==
    LET choice_texts == {Lower(q.choices[k].text) : k \in 1..Len(q.choices)}
    IN  IF /\ Len(q.choices) = 2
           /\ \/ (TextTrue \in choice_texts /\ TextFalse \in choice_texts)
              \/ (TextYes \in choice_texts /\ TextNo \in choice_texts)
        THEN [q EXCEPT !.type = "true_false"]
        ELSE q

AutoDetect(q) ==
    LET choice_texts == {Lower(q.choices[k].text) : k \in 1..Len(q.choices)}
    IN  IF /\ q.type = "multiple_choice"
           /\ Len(q.choices) = 2
           /\ \/ (TextTrue \in choice_texts /\ TextFalse \in choice_texts)
              \/ (TextYes \in choice_texts /\ TextNo \in choice_texts)
        THEN [q EXCEPT !.type = "true_false"]
        ELSE q

\* QReturn returning start_idx + 1, as the branch of line 133 does
QReturnRescan ==
    /\ pc = "question"
    /\ LoopEnds
    /\ IF i <= Len(lines) THEN Reads(Len(qstart)) ELSE UNCHANGED examined
    /\ questions' = Append(questions, AutoDetect(cur))
    /\ cur' = NoQuestion
    /\ i' = qstart[Len(qstart)] + 1
    /\ pc' = "parse"
    /\ UNCHANGED <<script, env, exc, out, lines, quiz_title, quiz_description,
                   multiple_attempts, qstart, none_returned, quizVars, modVars, lineVars>>

\* _parse_question, lines 146-151 and 219-226, and parse_content, lines 105-108:
\* the loop ends at the end of the lines or at the next question start, which is
\* left for parse_content; the question is appended and i becomes next_i
QReturn ==
    /\ pc = "question"
    /\ LoopEnds
    /\ IF i <= Len(lines) THEN Reads(Len(qstart)) ELSE UNCHANGED examined
    /\ questions' = Append(questions, AutoDetect(cur))
    /\ cur' = NoQuestion
    /\ pc' = "parse"
    /\ UNCHANGED <<script, env, exc, out, lines, i, quiz_title, quiz_description,
                   multiple_attempts, qstart, none_returned, quizVars, modVars, lineVars>>

\* ------------------------------------------------------- CanvasQuizCreator
QuizIds == {11, 12}

Say(tag, n) == [tag |-> tag, n |-> n]

RECURSIVE SumPoints(_)
SumPoints(qs) == IF qs = <<>> THEN 0 ELSE Head(qs).points + SumPoints(Tail(qs))

\* 'sub in s' on strings
Contains(s, sub) ==
    \E k \in 0..(Len(s) - Len(sub)) : SubSeq(s, k + 1, k + Len(sub)) = sub

\* QuizRequest testing "if points_possible:" in place of "is not None"
QuizRequestTruthy(title, instructions, points_possible, quiz_settings) ==
    LET sent == IF points_possible = <<>> THEN FALSE ELSE points_possible[1] # 0
    IN  [kind |-> "quiz", quiz |-> 0, position |-> 0, slug |-> "quiz",
         body |-> title,
         points |-> IF sent THEN points_possible[1] ELSE 0,
         choices |-> <<>>, scoring |-> <<>>, scoring_bool |-> "none",
         keys |-> {"title", "instructions", "grading_type"}
                  \cup (IF sent THEN {"points_possible"} ELSE {})
                  \cup quiz_settings]

\* the request of create_quiz, lines 262-277.  An optional argument is <<>>
\* for None and <<v>> for the value v; keys is the set of keys of
\* quiz_data["quiz"], points_possible being added only when it is not None
QuizRequest(title, instructions, points_possible, quiz_settings) ==
    [kind |-> "quiz", quiz |-> 0, position |-> 0, slug |-> "quiz",
     body |-> title,
     points |-> IF points_possible # <<>> THEN points_possible[1] ELSE 0,
     choices |-> <<>>, scoring |-> <<>>, scoring_bool |-> "none",
     keys |-> {"title", "instructions", "grading_type"}
              \cup (IF points_possible # <<>> THEN {"points_possible"} ELSE {})
              \cup quiz_settings]

\* the choice ids are fresh uuids, one per choice: a choice id is modelled by the
\* position of its choice
ChoiceBodies(q) == [k \in 1..Len(q.choices) |-> q.choices[k].text]
CorrectIds(q) == {k \in 1..Len(q.choices) : q.choices[k].correct}
RECURSIVE SortedSeq(_)
SortedSeq(S) ==
    IF S = {} THEN <<>>
    ELSE LET m == CHOOSE x \in S : \A y \in S : x <= y
         IN  <<m>> \o SortedSeq(S \ {m})
Max(S) == CHOOSE x \in S : \A y \in S : y <= x

\* the keys of item_data["item"]["entry"] in every _create_*_question
EntryKeys == {"interaction_type_slug", "title", "item_body", "calculator_type",
              "interaction_data", "properties", "scoring_data", "scoring_algorithm"}

\* _create_multiple_choice_question, lines 324-373: scoring_data is the id of
\* the last correct choice, None when there is none
MultipleChoiceItem(assignment, q, position) ==
    [kind |-> "item", quiz |-> assignment, position |-> position, slug |-> "choice",
     body |-> q.text, points |-> q.points, choices |-> ChoiceBodies(q),
     scoring |-> IF CorrectIds(q) = {} THEN <<>> ELSE <<Max(CorrectIds(q))>>,
     scoring_bool |-> "none", keys |-> EntryKeys]

\* _create_multiple_answer_question, lines 381-429
MultipleAnswerItem(assignment, q, position) ==
    [kind |-> "item", quiz |-> assignment, position |-> position, slug |-> "multi-answer",
     body |-> q.text, points |-> q.points, choices |-> ChoiceBodies(q),
     scoring |-> SortedSeq(CorrectIds(q)),
     scoring_bool |-> "none", keys |-> EntryKeys]

\* _create_true_false_question, lines 437-473: the first correct choice decides
TrueFalseAnswer(q) ==
    IF CorrectIds(q) = {} THEN "true"
    ELSE LET first == q.choices[CHOOSE k \in CorrectIds(q) : \A j \in CorrectIds(q) : k <= j]
             choice_text == Lower(first.text)
         IN  IF Contains(choice_text, TextFalse) \/ Contains(choice_text, TextNo)
             THEN "false" ELSE "true"
TrueFalseItem(assignment, q, position) ==
    [kind |-> "item", quiz |-> assignment, position |-> position, slug |-> "true-false",
     body |-> q.text, points |-> q.points, choices |-> <<>>,
     scoring |-> <<>>, scoring_bool |-> TrueFalseAnswer(q), keys |-> EntryKeys]

\* _create_essay_question, lines 481-512
EssayItem(assignment, q, position) ==
    [kind |-> "item", quiz |-> assignment, position |-> position, slug |-> "essay",
     body |-> q.text, points |-> q.points, choices |-> <<>>,
     scoring |-> <<>>, scoring_bool |-> "none", keys |-> EntryKeys]

\* ItemFor without the multiple_answer branch
ItemForNoMultiAnswer(assignment, q, position) ==
    IF q.type = "multiple_choice" THEN MultipleChoiceItem(assignment, q, position)
    ELSE IF q.type = "true_false" THEN TrueFalseItem(assignment, q, position)
    ELSE IF q.type = "essay" THEN EssayItem(assignment, q, position)
    ELSE MultipleChoiceItem(assignment, q, position)

\* create_question_from_parsed, lines 296-319
ItemFor(assignment, q, position) ==
    IF q.type = "multiple_choice" THEN MultipleChoiceItem(assignment, q, position)
    ELSE IF q.type = "multiple_answer" THEN MultipleAnswerItem(assignment, q, position)
    ELSE IF q.type = "true_false" THEN TrueFalseItem(assignment, q, position)
    ELSE IF q.type = "essay" THEN EssayItem(assignment, q, position)
    ELSE MultipleChoiceItem(assignment, q, position)
UnsupportedType(q) ==
    q.type \notin {"multiple_choice", "multiple_answer", "true_false", "essay"}

\* ------------------------------------------------ create_canvas_quiz.py main
Unread == [url |-> "unread", token |-> "unread", course |-> "unread", dir |-> "unread"]
QuizEnvs ==
    [url : {"absent", "set"}, token : {"absent", "set"},
     course : {"absent", "nonint", "set"}, dir : {"unread"}]

\* QuizEnvError without the validation of CANVAS_API_TOKEN
QuizEnvErrorNoToken(e) ==
    IF e.url = "absent" THEN "ValueError: CANVAS_URL not found"
    ELSE IF e.course = "absent" THEN "ValueError: CANVAS_COURSE_ID not found"
    ELSE IF e.course = "nonint" THEN "ValueError: CANVAS_COURSE_ID must be a valid integer"
    ELSE "none"

\* main, lines 667-677: the first failing validation raises ValueError
QuizEnvError(e) ==
    IF e.url = "absent" THEN "ValueError: CANVAS_URL not found"
    ELSE IF e.token = "absent" THEN "ValueError: CANVAS_API_TOKEN not found"
    ELSE IF e.course = "absent" THEN "ValueError: CANVAS_COURSE_ID not found"
    ELSE IF e.course = "nonint" THEN "ValueError: CANVAS_COURSE_ID must be a valid integer"
    ELSE "none"

NoResult == [returned |-> FALSE, quiz |-> 0, questions |-> <<>>,
             total_questions |-> 0, total_points |-> 0]

\* main, lines 654-686, and parse_file / parse_content, lines 65-83: the
\* environment is read and validated, then the file is opened and split
QuizMain ==
    /\ script = "quiz" /\ pc = "main"
    /\ \E e \in QuizEnvs, file \in {"missing", "unreadable", "ok"}, content \in FileContents :
         /\ env' = e
         /\ IF QuizEnvError(e) # "none"
            THEN /\ exc' = QuizEnvError(e)
                 /\ pc' = "crashed"
                 /\ UNCHANGED <<out, lines, questions, i>>
            ELSE /\ UNCHANGED exc
                 /\ IF file = "missing"
                    THEN /\ out' = out \o <<Say("using", 0), Say("no_file", 0)>>
                         /\ pc' = "done"
                         /\ UNCHANGED <<lines, questions, i>>
                    ELSE IF file = "unreadable"
                    THEN /\ out' = out \o <<Say("using", 0), Say("creating_from_file", 0),
                                            Say("error_quiz_file", 0)>>
                         /\ pc' = "done"
                         /\ UNCHANGED <<lines, questions, i>>
                    ELSE /\ out' = out \o <<Say("using", 0), Say("creating_from_file", 0)>>
                         /\ lines' = content
                         /\ questions' = <<>>
                         /\ i' = 1
                         /\ pc' = "parse"
    /\ UNCHANGED <<script, cur, quiz_title, quiz_description, multiple_attempts,
                   qstart, none_returned, examined, quizVars, modVars, lineVars>>

\* parse_content, lines 84 and 112-117, and create_quiz_from_text2qti_file,
\* lines 611-614: the scan is over, the dict is returned, the points are summed
OuterDone ==
    /\ pc = "parse" /\ i > Len(lines)
    /\ total_points' = SumPoints(questions)
    /\ pc' = "create_quiz"
    /\ UNCHANGED <<script, env, exc, out, parseVars, assignment_id, qi,
                   created_questions, requests, result, modVars, lineVars>>

\* CreateQuiz with the failure of the POST printed and the questions still added
CreateQuizSwallow ==
    /\ pc = "create_quiz"
    /\ requests' = Append(requests,
           QuizRequest(quiz_title, quiz_description, <<total_points>>, {"multiple_attempts"}))
    /\ \/ \E id \in QuizIds :
            /\ assignment_id' = id
            /\ out' = Append(out, Say("quiz_created", id))
       \/ /\ out' = Append(out, Say("error_quiz_file", 0))
          /\ UNCHANGED assignment_id
    /\ created_questions' = <<>>
    /\ qi' = 1
    /\ pc' = "questions"
    /\ UNCHANGED <<script, env, exc, parseVars, total_points, result, modVars, lineVars>>

\* create_quiz_from_text2qti_file, lines 617-629, and create_quiz: the POST
\* either returns the quiz or raises; the exception leaves the function and is
\* printed by main, lines 697-699
CreateQuiz ==
    /\ pc = "create_quiz"
    /\ requests' = Append(requests,
           QuizRequest(quiz_title, quiz_description, <<total_points>>, {"multiple_attempts"}))
    /\ \/ \E id \in QuizIds :
            /\ assignment_id' = id
            /\ out' = Append(out, Say("quiz_created", id))
            /\ created_questions' = <<>>
            /\ qi' = 1
            /\ pc' = "questions"
       \/ /\ out' = Append(out, Say("error_quiz_file", 0))
          /\ pc' = "done"
          /\ UNCHANGED <<assignment_id, created_questions, qi>>
    /\ UNCHANGED <<script, env, exc, parseVars, total_points, result, modVars, lineVars>>

\* PositionOf for enumerate(...) without its start value 1
PositionOfZeroBased(k) == k - 1

\* lines 630 and 636: the position sent with the k-th question, position=i of
\* enumerate(quiz_data['questions'], 1)
PositionOf(k) == k

\* AfterFailure leaving the loop at the first failure
AfterFailureBreak(k) == Len(questions) + 1

\* lines 640-641: the except clause prints and the loop goes on with the next
\* question
AfterFailure(k) == k + 1

\* create_quiz_from_text2qti_file, lines 630-641: one iteration of the loop;
\* the POST of the question either succeeds or raises, and the exception is
\* caught and printed
CreateQuestion ==
    /\ pc = "questions" /\ qi <= Len(questions)
    /\ requests' = Append(requests, ItemFor(assignment_id, questions[qi], PositionOf(qi)))
    /\ \/ /\ created_questions' = Append(created_questions,
                                         [position |-> PositionOf(qi), type |-> questions[qi].type])
          /\ out' = out \o
                (IF UnsupportedType(questions[qi]) THEN <<Say("warning_type", qi)>> ELSE <<>>)
                \o <<Say("question_created", qi)>>
          /\ qi' = qi + 1
       \/ /\ out' = out \o
                (IF UnsupportedType(questions[qi]) THEN <<Say("warning_type", qi)>> ELSE <<>>)
                \o <<Say("error_question", qi)>>
          /\ qi' = AfterFailure(qi)
          /\ UNCHANGED created_questions
    /\ UNCHANGED <<script, pc, env, exc, parseVars, total_points, assignment_id,
                   result, modVars, lineVars>>

\* create_quiz_from_text2qti_file, lines 643-648, and main, lines 688-695
ReturnResult ==
    /\ pc = "questions" /\ qi > Len(questions)
    /\ result' = [returned |-> TRUE, quiz |-> assignment_id,
                  questions |-> created_questions,
                  total_questions |-> Len(created_questions),
                  total_points |-> total_points]
    /\ out' = Append(out, Say("complete", Len(created_questions)))
    /\ pc' = "done"
    /\ UNCHANGED <<script, env, exc, parseVars, total_points, assignment_id, qi,
                   created_questions, requests, modVars, lineVars>>

\* ------------------------------------------------ get_canvas_module_items.py
\* What the API can return for a module item: its type, whether it is
\* published, and whether it carries the reference its download needs
\* (content_id for a file, page_url for a page).
ItemPool == {
    [type |-> "File",        published |-> TRUE,  ref |-> TRUE],
    [type |-> "Page",        published |-> TRUE,  ref |-> TRUE],
    [type |-> "Attachment",  published |-> TRUE,  ref |-> FALSE],
    [type |-> "File",        published |-> FALSE, ref |-> TRUE],
    [type |-> "ExternalUrl", published |-> TRUE,  ref |-> TRUE] }

ModEnvs ==
    [url : {"absent", "set"}, token : {"absent", "set"},
     course : {"absent", "set"}, dir : {"absent", "set"}]

\* Selected without the test of 'published'
SelectedUnpublishedToo(item) == item.type \in {"File", "Attachment", "Page"}

\* lines 32-36
allowed_types == {"File", "Attachment", "Page"}
Selected(item) == item.type \in allowed_types /\ item.published
RECURSIVE Filter(_)
Filter(items) ==
    IF items = <<>> THEN <<>>
    ELSE (IF Selected(Head(items)) THEN <<Head(items)>> ELSE <<>>) \o Filter(Tail(items))

\* main, lines 155-169, and download_course_modules, lines 17-22:
\* os.getenv("CANVAS_URL").rstrip('/') raises AttributeError on None; the other
\* variables are used as they are; get_course either returns or raises
ModMain ==
    /\ script = "modules" /\ pc = "main"
    /\ \E e \in ModEnvs, api \in {"ok", "error"}, n \in 0..MaxModules :
         /\ env' = e
         /\ IF e.url = "absent"
            THEN /\ exc' = "AttributeError: rstrip"
                 /\ pc' = "crashed"
                 /\ UNCHANGED <<out, mod_left>>
            ELSE IF api = "error"
            THEN /\ exc' = "CanvasException"
                 /\ pc' = "crashed"
                 /\ UNCHANGED <<out, mod_left>>
            ELSE /\ out' = out \o <<Say("course", 0), Say("creating_dir", 0)>>
                 /\ mod_left' = n
                 /\ pc' = "modules"
                 /\ UNCHANGED exc
    /\ UNCHANGED <<script, parseVars, quizVars, fetched, all_items, todo, attempts, lineVars>>

\* the items of one API answer, numbered on from the items already fetched
Numbered(kinds_, m) ==
    [k \in 1..Len(kinds_) |->
        [id |-> Len(fetched) + k, module |-> m, type |-> kinds_[k].type,
         published |-> kinds_[k].published, ref |-> kinds_[k].ref]]

\* download_course_modules, lines 24-37: the next module, its items, the
\* filter; a request of the API that raises here is caught nowhere
ModModule ==
    /\ pc = "modules" /\ mod_left > 0
    /\ \/ /\ \E ks \in SeqsUpTo(ItemPool, MaxItemsTotal - Len(fetched)) :
               LET items == Numbered(ks, mod_left)
               IN  /\ fetched' = fetched \o items
                   /\ all_items' = all_items \o Filter(items)
                   /\ todo' = Filter(items)
          /\ out' = Append(out, Say("processing_module", mod_left))
          /\ mod_left' = mod_left - 1
          /\ pc' = "items"
          /\ UNCHANGED exc
       \/ /\ exc' = "CanvasException"
          /\ pc' = "crashed"
          /\ UNCHANGED <<out, mod_left, fetched, all_items, todo>>
    /\ UNCHANGED <<script, env, parseVars, quizVars, attempts, lineVars>>

\* download_file, lines 87-113, and download_page, lines 117-149: without the
\* reference nothing is fetched; otherwise the fetch succeeds or raises, and
\* the exception is caught and printed inside the function
Outcomes(item) == IF item.ref THEN {"downloaded", "error"} ELSE {"no_reference"}
Handler(item) == IF item.type = "Page" THEN "download_page" ELSE "download_file"

\* download_course_modules, lines 39-60: one item of items_to_download
ModItem ==
    /\ pc = "items" /\ todo # <<>>
    /\ \E o \in Outcomes(Head(todo)) :
         /\ attempts' = Append(attempts,
                [item |-> Head(todo), handler |-> Handler(Head(todo)), outcome |-> o])
         /\ out' = out \o <<Say("processing_item", Head(todo).id), Say(o, Head(todo).id)>>
    /\ todo' = Tail(todo)
    /\ UNCHANGED <<script, pc, env, exc, parseVars, quizVars, mod_left, fetched,
                   all_items, lineVars>>

\* download_course_modules, line 39: the items of the module are exhausted
ModItemsDone ==
    /\ pc = "items" /\ todo = <<>>
    /\ pc' = "modules"
    /\ UNCHANGED <<script, env, exc, out, parseVars, quizVars, modVars, lineVars>>

\* download_course_modules, line 61, and main, lines 172-177
ModReturn ==
    /\ pc = "modules" /\ mod_left = 0
    /\ out' = Append(out, IF all_items # <<>> THEN Say("extracted", Len(all_items))
                          ELSE Say("no_pages", 0))
    /\ pc' = "done"
    /\ UNCHANGED <<script, env, exc, parseVars, quizVars, modVars, lineVars>>

\* ------------------------------------------------- parse_content on its own
\* Lines of question blocks with two choices: lettered and bracket choices
\* with the texts the detection of true/false looks for, and other markers.
ChoicePool == {
    <<"1", ".", " ", "Q">>,
    <<"a", ")", " ", "t", "r", "u", "e">>,
    <<"*", "b", ")", " ", "F", "a", "l", "s", "e">>,
    <<"*", "a", ")", " ", "Y", "e", "s">>,
    <<"b", ")", " ", "n", "o">>,
    <<"a", ")", " ", "n", "o", "t">>,
    <<"[", "*", "]", " ", "t", "r", "u", "e">>,
    <<"_", "_", "_">>,
    <<>> }

\* parse_content, lines 80-83, called with a text of its own
ParseContent ==
    /\ script = "parser" /\ pc = "main"
    /\ \E content \in SeqsUpTo(ChoicePool, MaxParseLines) : lines' = content
    /\ questions' = <<>>
    /\ i' = 1
    /\ pc' = "parse"
    /\ UNCHANGED <<script, env, exc, out, cur, quiz_title, quiz_description,
                   multiple_attempts, qstart, none_returned, examined, quizVars, modVars, lineVars>>

\* ------------------------------------------------------- single-line checks
\* The characters the patterns tell apart; "a" stands for any lower-case
\* letter, "." also for any other character.
LineAlphabet == {"1", ".", " ", "a", ")", "*", "[", "]", "=", "_", "^"}

\* lines 147-209: the line is stripped and the checks are applied
Classify ==
    /\ script = "line" /\ pc = "raw"
    /\ kinds' = {k \in {CodeOrder[j] : j \in 1..Len(CodeOrder)} : Matches(k, Strip(line))}
    /\ pc' = "classified"
    /\ UNCHANGED <<script, env, exc, out, parseVars, quizVars, modVars, line>>

\* ------------------------------------------------------------ specifications
InitCommon ==
    /\ env = Unread /\ exc = "none" /\ out = <<>>
    /\ lines = <<>> /\ i = 1 /\ cur = NoQuestion /\ questions = <<>>
    /\ quiz_title = <<"Q", "u", "i", "z">> /\ quiz_description = <<>>
    /\ multiple_attempts = <<>>
    /\ qstart = <<>> /\ none_returned = FALSE /\ examined = <<>>
    /\ total_points = 0 /\ assignment_id = 0 /\ qi = 1 /\ created_questions = <<>>
    /\ requests = <<>> /\ result = NoResult
    /\ mod_left = 0 /\ fetched = <<>> /\ all_items = <<>> /\ todo = <<>> /\ attempts = <<>>
    /\ kinds = {}

Init ==
    /\ script \in {"quiz", "modules"}
    /\ pc = "main"
    /\ line = <<>>
    /\ InitCommon

Next ==
    \/ QuizMain \/ OuterSkip \/ OuterLine \/ OuterQuestion \/ OuterDone
    \/ QChoice \/ QMulti \/ QNumerical \/ QShortAnswer \/ QEssay \/ QFileUpload
    \/ QOther \/ QReturn
    \/ CreateQuiz \/ CreateQuestion \/ ReturnResult
    \/ ModMain \/ ModModule \/ ModItem \/ ModItemsDone \/ ModReturn

Spec == Init /\ [][Next]_vars

InitLine ==
    /\ script = "line"
    /\ pc = "raw"
    /\ \E n \in 0..MaxLineLen : line \in [1..n -> LineAlphabet]
    /\ InitCommon

NextLine == Classify

SpecLine == InitLine /\ [][NextLine]_vars

InitParse ==
    /\ script = "parser"
    /\ pc = "main"
    /\ line = <<>>
    /\ InitCommon

NextParse ==
    \/ ParseContent \/ OuterSkip \/ OuterLine \/ OuterQuestion \/ OuterDone
    \/ QChoice \/ QMulti \/ QEssay \/ QOther \/ QReturn

SpecParse == InitParse /\ [][NextParse]_vars

\* ------------------------------------------------------------------ claims
Logged(tag, n) == \E k \in 1..Len(out) : out[k] = Say(tag, n)
ItemRequests == SelectSeq(requests, LAMBDA r : r.kind = "item")
QuizRequests == SelectSeq(requests, LAMBDA r : r.kind = "quiz")
Failed(k) == Logged("error_question", k)
Succeeded(k) == Logged("question_created", k)
CreatedAt(k) == \E j \in 1..Len(created_questions) : created_questions[j].position = k
QuizCreated == script = "quiz" /\ assignment_id # 0
Returned == script = "quiz" /\ result.returned

\* C1: once the quiz exists, the failure of question k is caught and logged,
\* every later question is still attempted, and the function returns normally
\* with exactly the successfully created questions.
C1_FailureCaughtLoopContinues ==
    QuizCreated =>
        /\ exc = "none"
        /\ pc \in {"questions", "done"}
        /\ Len(ItemRequests) = qi - 1
        /\ \A k \in 1..(qi - 1) :
              /\ ItemRequests[k].body = questions[k].text
              /\ Failed(k) # Succeeded(k)
              /\ Succeeded(k) <=> CreatedAt(k)
        /\ pc = "done" =>
              /\ result.returned
              /\ qi = Len(questions) + 1
              /\ result.questions = created_questions
              /\ Len(result.questions) = Cardinality({k \in 1..Len(questions) : Succeeded(k)})

\* a run that returned after a failure followed by a successful creation
C1_Witness ==
    /\ Returned
    /\ \E k, j \in 1..Len(questions) : k < j /\ Failed(k) /\ Succeeded(j) /\ CreatedAt(j)

\* C2 as stated: a missing environment variable never ends the run with an
\* uncaught exception.
EnvMissing ==
    \/ script = "quiz" /\ "absent" \in {env.url, env.token, env.course}
    \/ script = "modules" /\ "absent" \in {env.url, env.token, env.course, env.dir}
C2_Original == EnvMissing => (exc = "none" /\ pc # "crashed")

\* C2, amended: no missing variable is caught.  In create_canvas_quiz.py a
\* missing CANVAS_URL, CANVAS_API_TOKEN or CANVAS_COURSE_ID ends main with a
\* ValueError naming the first missing variable, before anything is printed,
\* parsed or requested.  In get_canvas_module_items.py a missing CANVAS_URL ends
\* main with an AttributeError before any API call, and the other variables are
\* not checked: whatever their state, main prints nothing about them and only
\* an exception of the API can end the run.
C2_MissingEnvEndsRun ==
    /\ (script = "quiz" /\ "absent" \in {env.url, env.token, env.course}) =>
          /\ pc = "crashed"
          /\ exc = (IF env.url = "absent" THEN "ValueError: CANVAS_URL not found"
                    ELSE IF env.token = "absent" THEN "ValueError: CANVAS_API_TOKEN not found"
                    ELSE "ValueError: CANVAS_COURSE_ID not found")
          /\ out = <<>> /\ requests = <<>> /\ lines = <<>>
    /\ (script = "modules" /\ env.url = "absent") =>
          /\ pc = "crashed" /\ exc = "AttributeError: rstrip"
          /\ out = <<>> /\ fetched = <<>> /\ attempts = <<>>
    /\ (script = "modules" /\ env.url = "set") =>
          /\ exc \in {"none", "CanvasException"}
          /\ exc = "none" <=> pc # "crashed"

\* main of create_canvas_quiz.py ended by the missing CANVAS_API_TOKEN
C2_Witness ==
    /\ script = "quiz" /\ env.url = "set" /\ env.token = "absent"
    /\ pc = "crashed" /\ exc = "ValueError: CANVAS_API_TOKEN not found"

\* C3: the type of a parsed question whose marker lines are all of one kind is
\* the type of that kind, and a question without marker lines is
\* multiple_choice without choices.
ParseDone == script = "quiz" /\ pc \in {"create_quiz", "questions", "done"}
IsStart(j) == QuestionStartMatch(Strip(lines[j]))
BlockEnd(start) ==
    IF \E j \in (start + 1)..Len(lines) : IsStart(j)
    THEN CHOOSE j \in (start + 1)..Len(lines) :
            IsStart(j) /\ \A h \in (start + 1)..(j - 1) : ~IsStart(h)
    ELSE Len(lines) + 1
MarkerKinds(start) ==
    {LineKind(Strip(lines[j])) : j \in (start + 1)..(BlockEnd(start) - 1)} \ {"none"}
TypesOfKind(k) ==
    CASE k = "choice"      -> {"multiple_choice", "true_false"}
      [] k = "multi"       -> {"multiple_answer"}
      [] k = "numerical"   -> {"numerical"}
      [] k = "short"       -> {"short_answer"}
      [] k = "essay"       -> {"essay"}
      [] k = "file_upload" -> {"file_upload"}
C3_TypeFollowsMarkerKind ==
    ParseDone =>
        \A q \in 1..Len(questions) :
            LET M == MarkerKinds(qstart[q])
            IN  /\ M = {} => (questions[q].type = "multiple_choice" /\ questions[q].choices = <<>>)
                /\ \A k \in M : M = {k} => questions[q].type \in TypesOfKind(k)

\* a parsed file_upload question whose only marker lines are circumflex lines
C3_Witness ==
    /\ ParseDone
    /\ \E q \in 1..Len(questions) :
          MarkerKinds(qstart[q]) = {"file_upload"} /\ questions[q].type = "file_upload"

\* C4: a stripped line matches at most one of the seven patterns, so the kind
\* of the line does not depend on the order in which the checks are tried.
Reverse(seq) == [k \in 1..Len(seq) |-> seq[Len(seq) + 1 - k]]
C4_AtMostOnePattern ==
    (script = "line" /\ pc = "classified") =>
        /\ Cardinality(kinds) <= 1
        /\ FirstMatch(Reverse(CodeOrder), Strip(line)) = LineKind(Strip(line))

\* a starred lettered choice has been classified
C4_Witness ==
    /\ script = "line" /\ pc = "classified"
    /\ kinds = {"choice"} /\ Strip(line)[1] = "*"

\* C5: parse_content returns one question per question-start line, in the
\* order of those lines, and _parse_question never returns None.
StartLines == {j \in 1..Len(lines) : IsStart(j)}
C5_OneQuestionPerStartLine ==
    /\ none_returned = FALSE
    /\ ParseDone =>
          /\ Len(questions) = Cardinality(StartLines)
          /\ qstart = SortedSeq(StartLines)
          /\ \A q \in 1..Len(questions) :
                questions[q].text = QuestionText(Strip(lines[qstart[q]]))

\* two questions parsed from start lines that have a marker line between them
C5_Witness ==
    /\ ParseDone
    /\ Len(questions) = 2
    /\ qstart[2] = qstart[1] + 2
    /\ MarkerKinds(qstart[1]) # {}

\* C6: download_course_modules calls the download of exactly the published
\* File, Attachment and Page items, each once, in the order the API returned
\* them; a failed download is caught and logged and the later items and modules
\* are still processed; the returned list holds exactly the selected items,
\* whatever the outcome of their download.
WantedItems == SelectSeq(fetched, LAMBDA it :
                   it.published /\ it.type \in {"File", "Attachment", "Page"})
AttemptedItems == [k \in 1..Len(attempts) |-> attempts[k].item]
C6_SelectedItemsEachOnce ==
    script = "modules" =>
        /\ all_items = WantedItems
        /\ AttemptedItems \o todo = all_items
        /\ \A k \in 1..Len(attempts) :
              /\ attempts[k].handler =
                    (IF attempts[k].item.type = "Page" THEN "download_page" ELSE "download_file")
              /\ Logged(attempts[k].outcome, attempts[k].item.id)
              /\ \A j \in 1..Len(attempts) : j < k => attempts[j].item.id < attempts[k].item.id
        /\ exc # "none" => todo = <<>>
        /\ pc = "items" => exc = "none"
        /\ pc = "done" =>
              /\ mod_left = 0 /\ todo = <<>>
              /\ AttemptedItems = WantedItems
              /\ Logged(IF all_items = <<>> THEN "no_pages" ELSE "extracted", Len(all_items))

\* the run is over; the download of an item failed, an item of a later module
\* was downloaded after it, and both are in the returned list
C6_Witness ==
    /\ script = "modules" /\ pc = "done"
    /\ \E j, k \in 1..Len(attempts) :
          /\ j < k
          /\ attempts[j].outcome = "error" /\ attempts[k].outcome = "downloaded"
          /\ attempts[j].item.module # attempts[k].item.module
          /\ \E a, b \in 1..Len(all_items) :
                all_items[a] = attempts[j].item /\ all_items[b] = attempts[k].item
    /\ Len(fetched) > Len(all_items)

\* C7: points_possible of the quiz request and total_points of the result are
\* the number of parsed questions (1 point each), failed ones included;
\* total_questions counts the created questions only; the two agree exactly
\* when no creation failed.
C7_PointsCountParsedQuestions ==
    script = "quiz" =>
        /\ \A q \in 1..Len(questions) : questions[q].points = 1
        /\ \A r \in 1..Len(QuizRequests) :
              /\ "points_possible" \in QuizRequests[r].keys
              /\ QuizRequests[r].points = Len(questions)
        /\ result.returned =>
              /\ result.total_points = Len(questions)
              /\ result.total_questions = Cardinality({k \in 1..Len(questions) : Succeeded(k)})
              /\ (result.total_points = result.total_questions)
                    <=> (\A k \in 1..Len(questions) : ~Failed(k))

\* a result whose totals differ because a creation failed
C7_Witness ==
    /\ Returned
    /\ result.total_points = 2
    /\ result.total_questions = 1

\* C8: the quiz request comes first and every question request targets the id
\* it returned; when the quiz request fails no question request is made, the
\* function does not return and main prints the error and no summary.
QuizFailed == script = "quiz" /\ requests # <<>> /\ assignment_id = 0
C8_QuizFirstThenItsQuestions ==
    script = "quiz" =>
        /\ \A k \in 1..Len(requests) : (requests[k].kind = "quiz") <=> (k = 1)
        /\ \A k \in 2..Len(requests) :
              requests[k].quiz = assignment_id /\ assignment_id \in QuizIds
        /\ QuizFailed =>
              /\ pc = "done" /\ exc = "none"
              /\ Len(requests) = 1
              /\ ~result.returned
              /\ Logged("error_quiz_file", 0)
              /\ \A n \in 0..Len(questions) : ~Logged("complete", n)

\* the quiz request failed although questions had been parsed
C8_Witness == QuizFailed /\ Len(questions) >= 2

\* C9: the item posted for a question has the interaction type of its parsed
\* type for multiple_choice, multiple_answer, true_false and essay; every other
\* type is posted as a 'choice' item built from the choices alone, without the
\* parsed answer or answers.
SlugOfType(t) ==
    CASE t = "multiple_choice" -> "choice"
      [] t = "multiple_answer" -> "multi-answer"
      [] t = "true_false"      -> "true-false"
      [] t = "essay"           -> "essay"
      [] OTHER                 -> "choice"
C9_InteractionTypeOfParsedType ==
    (script = "quiz" /\ pc \in {"questions", "done"}) =>
        \A k \in 1..Len(ItemRequests) :
            LET r == ItemRequests[k]
                q == questions[k]
            IN  /\ r.slug = SlugOfType(q.type)
                /\ q.type \in {"numerical", "short_answer", "file_upload"} =>
                      /\ r.choices = [c \in 1..Len(q.choices) |-> q.choices[c].text]
                      /\ r.keys \cap {"answer", "answers"} = {}
                      /\ r.scoring_bool = "none"
                      /\ \A c \in 1..Len(r.scoring) :
                            r.scoring[c] \in 1..Len(q.choices)
                                /\ q.choices[r.scoring[c]].correct

\* a numerical question with its parsed answer was posted as a 'choice' item
C9_Witness ==
    /\ script = "quiz"
    /\ \E k \in 1..Len(ItemRequests) :
          /\ questions[k].type = "numerical"
          /\ "answer" \in questions[k].keys /\ questions[k].answer # <<>>
          /\ ItemRequests[k].slug = "choice"

\* C10 as stated: the created questions have the contiguous positions 1..m
\* only when no creation failed.
Contiguous == \A j \in 1..Len(created_questions) : created_questions[j].position = j
NoFailure == \A k \in 1..Len(questions) : ~Failed(k)
C10_Original == (Returned /\ created_questions # <<>>) => (Contiguous => NoFailure)

\* C10, amended: the k-th parsed question is posted k-th, with position k,
\* however many earlier questions failed; the positions of the created
\* questions are strictly increasing, and they are the contiguous 1..m exactly
\* when no failed question precedes a created one, which includes every run
\* without a failure.
C10_PositionIsParsedIndex ==
    script = "quiz" =>
        /\ \A k \in 1..Len(ItemRequests) :
              /\ ItemRequests[k].position = k
              /\ ItemRequests[k].body = questions[k].text
        /\ \A a, b \in 1..Len(created_questions) :
              a < b => created_questions[a].position < created_questions[b].position
        /\ result.returned =>
              /\ Len(ItemRequests) = Len(questions)
              /\ Contiguous <=>
                    ~(\E k, j \in 1..Len(questions) : k < j /\ Failed(k) /\ Succeeded(j))
              /\ NoFailure => Contiguous

\* a creation failed after the last created question: positions 1..m all the same
C10_Witness ==
    /\ Returned
    /\ Len(created_questions) = 2 /\ Contiguous
    /\ Failed(3)

\* C11: a parsed question is true_false exactly when the last marker line of
\* its block is a lettered choice, the block has exactly two choices, and their
\* lower-cased texts are true and false, or yes and no, in either order.
Scanned == script = "parser" /\ pc \in {"parse", "create_quiz"}
BlockLines(start) == (start + 1)..(BlockEnd(start) - 1)
KindAt(j) == LineKind(Strip(lines[j]))
MarkerLines(start) == {j \in BlockLines(start) : KindAt(j) # "none"}
LastMarkerKind(start) ==
    IF MarkerLines(start) = {} THEN "none"
    ELSE KindAt(CHOOSE j \in MarkerLines(start) : \A h \in MarkerLines(start) : h <= j)
ChoiceLines(start) == {j \in BlockLines(start) : KindAt(j) \in {"choice", "multi"}}
ChoiceTextAt(j) ==
    IF KindAt(j) = "choice" THEN ChoiceText(Strip(lines[j]))
    ELSE MultiChoiceText(Strip(lines[j]))
LoweredTexts(start) == {Lower(ChoiceTextAt(j)) : j \in ChoiceLines(start)}
TrueFalseBlock(start) ==
    /\ LastMarkerKind(start) = "choice"
    /\ Cardinality(ChoiceLines(start)) = 2
    /\ \/ LoweredTexts(start) = {<<"t", "r", "u", "e">>, <<"f", "a", "l", "s", "e">>}
       \/ LoweredTexts(start) = {<<"y", "e", "s">>, <<"n", "o">>}
C11_TrueFalseExactlyWhenDetected ==
    Scanned =>
        \A q \in 1..Len(questions) :
            /\ (questions[q].type = "true_false") <=> TrueFalseBlock(qstart[q])
            /\ (Len(questions[q].choices) = 2 /\ LastMarkerKind(qstart[q]) # "choice")
                  => questions[q].type # "true_false"

\* a question detected as true_false from a starred 'False' as its first choice
C11_Witness ==
    /\ script = "parser" /\ pc = "create_quiz"
    /\ \E q \in 1..Len(questions) :
          /\ questions[q].type = "true_false"
          /\ questions[q].choices[1].text = <<"F", "a", "l", "s", "e">>
          /\ questions[q].choices[1].correct

\* ---- the single pass of parse_content and _parse_question over the lines
InLoops == script = "parser" /\ pc \in {"parse", "question"}
\* what is left to do: the lines from i on, counted twice, and the return of
\* the running _parse_question call
Remaining == 2 * (Len(lines) + 1 - i) + (IF pc = "question" THEN 1 ELSE 0)
ReadsOf(j) == {k \in 1..Len(examined) : examined[k].idx = j}
C12_Step ==
    InLoops =>
        /\ lines' = lines
        /\ Remaining' >= 0
        /\ Remaining' < Remaining \/ pc' = "create_quiz"
        /\ i' >= i
        /\ (pc = "parse" /\ i <= Len(lines)) => i' = i + 1
        /\ (pc = "parse" /\ i > Len(lines)) => (i' = i /\ pc' = "create_quiz")
        /\ (pc = "question" /\ pc' = "question") => i' = i + 1
        /\ (pc = "question" /\ pc' # "question") =>
              /\ pc' = "parse" /\ i' = i
              /\ (IF i > Len(lines) THEN TRUE ELSE IsStart(i))
C12_Reads ==
    script = "parser" =>
        /\ i \in 1..(Len(lines) + 1)
        /\ \A k \in 1..(Len(examined) - 1) : examined[k].idx <= examined[k + 1].idx
        /\ pc = "create_quiz" =>
              \A j \in 1..Len(lines) :
                  /\ ReadsOf(j) # {}
                  /\ Cardinality({examined[k].by : k \in ReadsOf(j)} \ {0}) <= 1
                  /\ Cardinality(ReadsOf(j)) <= 2
                  /\ (Cardinality(ReadsOf(j)) = 2) <=>
                        (IsStart(j) /\ \E h \in 1..(j - 1) : IsStart(h))
                  /\ (Cardinality(ReadsOf(j)) = 2) =>
                        \E a, b \in ReadsOf(j) :
                            a < b /\ examined[a].by >= 1 /\ examined[b].by = 0
\* every line the question loop stands on ends the loop or is taken by one of
\* its branches, so the loop never stands still before the end of the text
HandledKinds == {"choice", "multi", "numerical", "short_answer", "essay",
                 "file_upload", "none"}
C12_Handled ==
    (script = "parser" /\ pc = "question" /\ i <= Len(lines)) =>
        LoopEnds \/ LineKind(CurLine) \in HandledKinds
====
